---- MODULE Spec2Model ----
(***************************************************************************)
(* Model of ts/Series/GeoHeatmap/GeoHeatmapSeries.ts: the GeoHeatmapSeries *)
(* rendering hooks (update, drawPoints, getContext) with the cell          *)
(* rasterization they contain, and the dashboard EditMode controller that  *)
(* the same file carries.                                                  *)
(*                                                                         *)
(* An optional JavaScript value (undefined/null or a value v) is modelled  *)
(* as the empty set or the singleton {v}.                                  *)
(***************************************************************************)
EXTENDS Integers, Sequences, FiniteSets, TLC

VARIABLES
    \* GeoHeatmapSeries fields
    options,        \* series.options: interpolation, colsize, rowsize, interpolationBlur
    points,         \* series.points
    canvas,         \* series.canvas (optional)
    context,        \* series.context is set
    image,          \* series.image (optional)
    isDirtyCanvas,  \* series.isDirtyCanvas
    elements,       \* number of image elements the renderer made for the series
    last,           \* the most recent call on the series: its name and argument,
                    \* what it read from the chart, how often it called the base
                    \* method, whether it entered the re-rasterization block
                    \* and whether it raised
    \* locals of the re-rasterization loop of drawPoints
    colorAxis,      \* chart.colorAxis[0]: the colour string toColor gives for a value
    sizes,          \* [colsize, rowsize] of the loop
    pixelData,      \* the Uint8ClampedArray, by cell: written cell index -> 4 bytes
    written,        \* per processed point: the point, its colour and its cell index
    raised,         \* pixelData.set raised a RangeError
    \* EditMode fields
    active,         \* editMode.active
    classList,      \* dashboard.container.classList
    contextButtonElement, \* editMode.contextButtonElement is set
    contextMenu,    \* editMode.contextMenu (optional)
    cellToolbar, rowToolbar, optionsToolbar, \* the toolbars (optional)
    resizers,       \* layout index -> layout.resizer (optional)
    guiOptions,     \* dashboard.options.gui (optional)
    btnColor,       \* style.color of the toggle button
    created,        \* number of objects EditMode has constructed
    lastCall        \* the most recent call on the EditMode

seriesVars == <<options, points, canvas, context, image, isDirtyCanvas, elements,
                last>>
rasterVars == <<colorAxis, sizes, pixelData, written, raised>>
editVars == <<active, classList, contextButtonElement, contextMenu, cellToolbar,
              rowToolbar, optionsToolbar, resizers, guiOptions, btnColor, created,
              lastCall>>
vars == <<seriesVars, rasterVars, editVars>>

\* ------------------------------------------------------------------------
\* Bounds and input sets
\* ------------------------------------------------------------------------

\* Most points the raster loop processes.
MaxPoints == 2

\* Cell sizes: powers of two, for which every division of the index
\* arithmetic is exact in IEEE doubles, so the integer arithmetic below
\* computes what the JavaScript computes.
SizeInputs == {1, 2, 16}

LonInputs == { {}, {-180}, {0}, {180} }
LatInputs == { {-90}, {-89}, {90} }
ValueInputs == { {}, {0}, {5} }

PointInputs ==
    [lon : LonInputs, lat : LatInputs, value : ValueInputs]

\* The colour strings of a colour axis, as toColor returns them for the
\* values 0 and 5: "rgb(r,g,b)" or "rgba(r,g,b,a)", kept as the list of the
\* numbers between the parentheses. The alpha is counted in fifths
\* (0 = "0", 1 = "0.2", 5 = "1").
OpaqueAxis == [v \in {0, 5} |-> IF v = 0 THEN <<255, 255, 255>> ELSE <<0, 0, 255>>]

ColorAxisInputs ==
    { OpaqueAxis,
      [v \in {0, 5} |-> IF v = 0 THEN <<255, 255, 255, 0>> ELSE <<0, 0, 255, 5>>],
      [v \in {0, 5} |-> IF v = 0 THEN <<10, 20, 30, 1>> ELSE <<0, 0, 255, 0>>] }

\* ------------------------------------------------------------------------
\* Utilities
\* ------------------------------------------------------------------------

\* U.pick: the first argument that is neither undefined nor null.
pick(opt, dflt) == IF opt = {} THEN dflt ELSE CHOOSE v \in opt : TRUE

\* U.defined
defined(opt) == opt # {}

\* U.isNumber
isNumber(opt) == opt # {}

\* Math.ceil(n / d) for d > 0
Ceil(n, d) == -((-n) \div d)

\* Storing a number in a Uint8ClampedArray
Clamp(x) == IF x < 0 THEN 0 ELSE IF x > 255 THEN 255 ELSE x

\* ------------------------------------------------------------------------
\* The re-rasterization block of drawPoints
\* ------------------------------------------------------------------------

\* canvasWidth = ~~(360 / colsize) + 1
CanvasWidth(colsize) == (360 \div colsize) + 1

\* canvasHeight = ~~(180 / rowsize) + 1
CanvasHeight(rowsize) == (180 \div rowsize) + 1

\* Math.ceil(canvasWidth * (canvasHeight - 1 - (lat + 90) / rowsize)
\*           + (lon + 180) / colsize),
\* the argument brought to the common denominator rowsize * colsize.
scaledPointPos(lon, lat, colsize, rowsize) ==
    LET canvasWidth == CanvasWidth(colsize)
        canvasHeight == CanvasHeight(rowsize)
    IN  Ceil(canvasWidth * ((canvasHeight - 1) * rowsize - (lat + 90)) * colsize
                + (lon + 180) * rowsize,
             rowsize * colsize)

\* Mutant of colorFromPoint: the value is tested for truth, not for being
\* defined, so the value 0 is made transparent.
colorFromPoint_Falsy(p, axis) ==
    LET rgba == axis[pick(p.value, 0)]
        alpha == IF Len(rgba) >= 4 THEN (rgba[4] * 255) \div 5 ELSE 255
    IN  <<rgba[1], rgba[2], rgba[3],
          IF ~defined(p.value) \/ p.value = {0} THEN 0 ELSE alpha>>

\* colorAxis.toColor(p.value || 0, p), split at the parentheses and commas
\* and parsed; rgba[3] = pick(rgba[3], 1.0) * 255, and 0 for an undefined
\* value.
colorFromPoint(p, axis) ==
    LET rgba == axis[pick(p.value, 0)]
        alpha == IF Len(rgba) >= 4 THEN (rgba[4] * 255) \div 5 ELSE 255
    IN  <<rgba[1], rgba[2], rgba[3], IF ~defined(p.value) THEN 0 ELSE alpha>>

\* new Uint8ClampedArray(colorFromPoint(p))
SourceArr(p, axis) ==
    LET c == colorFromPoint(p, axis) IN [k \in 1..4 |-> Clamp(c[k])]

\* pixelData.set(sourceArr, cell * 4) raises a RangeError unless the four
\* bytes lie inside the canvasArea * 4 bytes of the buffer.
SetInRange(cell, colsize, rowsize) ==
    /\ cell * 4 >= 0
    /\ cell * 4 + 4 <= CanvasWidth(colsize) * CanvasHeight(rowsize) * 4

\* One pass of the loop body for point p: skipped unless lon and lat are
\* numbers; pixelData.set writes or raises.
LoopBody(state, p, axis, colsize, rowsize) ==
    IF state.raised \/ ~(isNumber(p.lon) /\ isNumber(p.lat)) THEN state
    ELSE LET cell == scaledPointPos(pick(p.lon, 0), pick(p.lat, 0), colsize, rowsize)
         IN  IF SetInRange(cell, colsize, rowsize)
             THEN [raised |-> FALSE,
                   data |-> [c \in DOMAIN state.data \cup {cell} |->
                               IF c = cell THEN SourceArr(p, axis) ELSE state.data[c]]]
             ELSE [state EXCEPT !.raised = TRUE]

\* for (let i = 0; i < points.length; i++) over a fresh, zeroed buffer
RECURSIVE Loop(_, _, _, _, _)
Loop(state, pts, axis, colsize, rowsize) ==
    IF pts = <<>> THEN state
    ELSE Loop(LoopBody(state, Head(pts), axis, colsize, rowsize),
              Tail(pts), axis, colsize, rowsize)

EmptyBuffer == [raised |-> FALSE, data |-> <<>>]

\* ------------------------------------------------------------------------
\* The raster loop on its own: the sizes and the colour axis are drawn
\* first, then the loop body runs on one point after the other.
\* ------------------------------------------------------------------------

\* The cell a processed point was written to (none when lon or lat is not
\* a number).
CellOf(p, colsize, rowsize) ==
    IF isNumber(p.lon) /\ isNumber(p.lat)
    THEN {scaledPointPos(pick(p.lon, 0), pick(p.lat, 0), colsize, rowsize)}
    ELSE {}

\* const p = points[i] ... pixelData.set(sourceArr, scaledPointPos(lon, lat) * 4)
ProcessPoint ==
    /\ ~raised
    /\ Len(written) < MaxPoints
    /\ \E p \in PointInputs :
         LET next == LoopBody([raised |-> raised, data |-> pixelData], p,
                              colorAxis, sizes.colsize, sizes.rowsize)
         IN  /\ pixelData' = next.data
             /\ raised' = next.raised
             /\ written' = Append(written,
                                  [p |-> p,
                                   rgba |-> colorFromPoint(p, colorAxis),
                                   cell |-> CellOf(p, sizes.colsize, sizes.rowsize)])
    /\ UNCHANGED <<colorAxis, sizes, seriesVars, editVars>>

\* ------------------------------------------------------------------------
\* GeoHeatmapSeries
\* ------------------------------------------------------------------------

\* The value of an optional that is set.
the(opt) == CHOOSE v \in opt : TRUE

\* What mapView.projectedUnitsToPixels gives for the two corners of
\* series.bounds: both pixel positions, or not both.
CornerInputs ==
    { {},
      {[topLeft |-> [x |-> 0, y |-> 0], bottomRight |-> [x |-> 400, y |-> 200]]},
      {[topLeft |-> [x |-> 10, y |-> 20], bottomRight |-> [x |-> 30, y |-> 30]]} }

\* chart.mapView: none, or a view with its projection name and the pixel
\* positions it gives.
MapViewInputs ==
    { {} } \cup
    { {[name |-> n, corners |-> c]} :
        n \in {"Orthographic", "EqualEarth"}, c \in CornerInputs }

\* What one drawPoints call reads from its collaborators: chart.mapView,
\* whether series.bounds is defined, whether chart.colorAxis[0] exists,
\* whether the browser hands out a 2D context, renderer.globalAnimation,
\* whether its options carry a step callback of the user, and
\* chart.hasRendered. Either every collaborator is there, or exactly one is
\* missing on the first rendering of an EqualEarth chart.
Complete ==
    [mapView |-> {[name |-> "EqualEarth",
                   corners |-> {[topLeft |-> [x |-> 0, y |-> 0],
                                 bottomRight |-> [x |-> 400, y |-> 200]]}]},
     bounds |-> TRUE, hasColorAxis |-> TRUE, canvas2d |-> TRUE,
     globalAnimation |-> FALSE, userStep |-> FALSE, hasRendered |-> FALSE]

EnvInputs ==
    { e \in [mapView : {m \in MapViewInputs : m # {} /\ the(m).corners # {}},
             bounds : {TRUE}, hasColorAxis : {TRUE}, canvas2d : {TRUE},
             globalAnimation : BOOLEAN, userStep : BOOLEAN,
             hasRendered : BOOLEAN] :
        e.userStep => e.globalAnimation }
    \cup { [Complete EXCEPT !.mapView = {}],
           [Complete EXCEPT !.mapView =
                {[the(Complete.mapView) EXCEPT !.corners = {}]}],
           [Complete EXCEPT !.bounds = FALSE],
           [Complete EXCEPT !.hasColorAxis = FALSE],
           [Complete EXCEPT !.canvas2d = FALSE] }

SeriesSizeInputs == { {1}, {16} }

\* The point lists a series can hold: none, one on the grid, and one more
\* at the far corner.
SeriesPointsInputs ==
    { <<>>,
      <<[lon |-> {-180}, lat |-> {90}, value |-> {5}]>>,
      <<[lon |-> {-180}, lat |-> {90}, value |-> {5}],
        [lon |-> {180}, lat |-> {-90}, value |-> {}]>> }

\* The argument of update: the keys it carries override series.options
\* (U.merge).
UpdateInputs ==
    { [interpolation |-> i, colsize |-> c] :
        i \in { {}, {TRUE}, {FALSE} }, c \in { {} } \cup SeriesSizeInputs }

merge(opts, newOptions) ==
    [opts EXCEPT
        !.interpolation = pick(newOptions.interpolation, opts.interpolation),
        !.colsize = IF newOptions.colsize = {} THEN opts.colsize
                    ELSE newOptions.colsize]

\* Mutant of DirtyAfterUpdate: update forgets to mark the canvas dirty.
DirtyAfterUpdate_Keeps(opts, dirty) == dirty

\* if (series.options.interpolation) { series.isDirtyCanvas = true; }
DirtyAfterUpdate(opts, dirty) == IF opts.interpolation THEN TRUE ELSE dirty

\* GeoHeatmapSeries.update
update ==
    \E newOptions \in UpdateInputs :
        /\ options' = merge(options, newOptions)
        /\ isDirtyCanvas' = DirtyAfterUpdate(options', isDirtyCanvas)
        /\ last' = [op |-> "update", arg |-> {newOptions}, env |-> {},
                    base |-> 1, rasterized |-> FALSE, threw |-> FALSE]
        /\ UNCHANGED <<points, canvas, context, image, elements, rasterVars,
                       editVars>>

\* doc.createElement('canvas'): 300 by 150 and blank
NewCanvas == [width |-> 300, height |-> 150, content |-> {}]

\* GeoHeatmapSeries.getContext on the fields cvs (series.canvas) and ctx
\* (series.context is set): clears the canvas it has, or creates a canvas
\* and asks it for a 2D context, which canvas2d tells to exist.
getContext(cvs, ctx, canvas2d) ==
    IF cvs # {} /\ ctx
    THEN [canvas |-> {[the(cvs) EXCEPT !.content = {}]}, context |-> ctx,
          returns |-> ctx]
    ELSE [canvas |-> {NewCanvas}, context |-> canvas2d, returns |-> canvas2d]

\* Mutant of InterpolationPath: series.bounds is not tested.
InterpolationPath_IgnoresBounds(opts, env) ==
    opts.interpolation /\ env.mapView # {}

\* Mutant of InterpolationPath: the interpolation option is not tested.
InterpolationPath_IgnoresOption(opts, env) ==
    env.mapView # {} /\ env.bounds

\* if (interpolation && mapView && series.bounds)
InterpolationPath(opts, env) ==
    opts.interpolation /\ env.mapView # {} /\ env.bounds

\* Mutant of CanRender: the context is not tested.
CanRender_IgnoresContext(cvs, ctx, env) == cvs # {} /\ env.hasColorAxis

\* if (canvas && ctx && colorAxis)
CanRender(cvs, ctx, env) == cvs # {} /\ ctx /\ env.hasColorAxis

\* Mutant of NeedsRaster: the Orthographic projection gets no fresh canvas.
NeedsRaster_DirtyOnly(dirty, mapView) == dirty

\* if (series.isDirtyCanvas || mapView.projection.options.name === 'Orthographic')
NeedsRaster(dirty, mapView) == dirty \/ mapView.name = "Orthographic"

\* const dimensions = { x, y, width, height }
Dimensions(corners) ==
    [x |-> corners.topLeft.x,
     y |-> corners.topLeft.y,
     width |-> corners.bottomRight.x - corners.topLeft.x,
     height |-> corners.bottomRight.y - corners.topLeft.y]

\* The re-rasterization block on canvas cvs: the cell buffer is filled from
\* the points, scaled up over the canvas and sampled into the projected
\* image. The block raises when pixelData.set is out of range, and when a
\* canvas or image of zero width or height is drawn or read (drawImage,
\* getImageData, new ImageData); the canvas keeps the size it was last
\* given. The pixels of the projected image are a function of the cell
\* buffer, the sizes and the map view, which the content records.
Rasterize(cvs, pts, opts, axis, mapView, dimensions) ==
    LET colsize == pick(opts.colsize, 1)
        rowsize == pick(opts.rowsize, 1)
        canvasWidth == CanvasWidth(colsize)
        canvasHeight == CanvasHeight(rowsize)
        filled == Loop(EmptyBuffer, pts, axis, colsize, rowsize)
        blur == pick(opts.interpolationBlur, 1)
        upscaledWidth == dimensions.width * blur
        upscaledHeight == ((blur * dimensions.width) \div canvasWidth) * canvasHeight
        projectedWidth == dimensions.width
        projectedHeight == dimensions.height
        cartesian == [data |-> filled.data, canvasWidth |-> canvasWidth,
                      canvasHeight |-> canvasHeight,
                      width |-> upscaledWidth, height |-> upscaledHeight]
    IN  IF filled.raised
        THEN [canvas |-> {[width |-> canvasWidth, height |-> canvasHeight,
                           content |-> {}]},
              threw |-> TRUE]
        ELSE IF upscaledWidth = 0 \/ upscaledHeight = 0
        THEN [canvas |-> {[width |-> upscaledWidth, height |-> upscaledHeight,
                           content |-> {}]},
              threw |-> TRUE]
        ELSE IF projectedWidth = 0 \/ projectedHeight = 0
        THEN [canvas |-> {[width |-> upscaledWidth, height |-> upscaledHeight,
                           content |-> {[cartesian |-> cartesian, projection |-> "",
                                         x |-> 0, y |-> 0]}]},
              threw |-> TRUE]
        ELSE [canvas |-> {[width |-> projectedWidth, height |-> projectedHeight,
                           content |-> {[cartesian |-> cartesian,
                                         projection |-> mapView.name,
                                         x |-> dimensions.x, y |-> dimensions.y]}]},
              threw |-> FALSE]

\* Mutant of PlaceImage: an image is created on every call.
PlaceImage_AlwaysCreates(img, dirty, cvs, dimensions, env) ==
    IF FALSE
    THEN IF env.globalAnimation /\ env.hasRendered
         THEN [image |-> {[the(img) EXCEPT
                            !.animation =
                                {[startX |-> the(img).x, startY |-> the(img).y,
                                  startWidth |-> the(img).width,
                                  startHeight |-> the(img).height,
                                  to |-> dimensions,
                                  userStep |-> env.userStep]}]},
               isDirtyCanvas |-> dirty, elements |-> elements]
         ELSE [image |-> {[the(img) EXCEPT
                            !.animation = {},
                            !.x = dimensions.x, !.y = dimensions.y,
                            !.width = dimensions.width,
                            !.height = dimensions.height,
                            !.href = cvs.content]},
               isDirtyCanvas |-> dirty, elements |-> elements]
    ELSE [image |-> {[id |-> elements + 1, inGroup |-> TRUE,
                      x |-> dimensions.x, y |-> dimensions.y,
                      width |-> dimensions.width, height |-> dimensions.height,
                      href |-> cvs.content, animation |-> {}]},
          isDirtyCanvas |-> FALSE, elements |-> elements + 1]

\* Mutant of PlaceImage: a running animation is not stopped before the
\* attributes are set.
PlaceImage_NoStop(img, dirty, cvs, dimensions, env) ==
    IF img # {}
    THEN IF env.globalAnimation /\ env.hasRendered
         THEN [image |-> {[the(img) EXCEPT
                            !.animation =
                                {[startX |-> the(img).x, startY |-> the(img).y,
                                  startWidth |-> the(img).width,
                                  startHeight |-> the(img).height,
                                  to |-> dimensions,
                                  userStep |-> env.userStep]}]},
               isDirtyCanvas |-> dirty, elements |-> elements]
         ELSE [image |-> {[the(img) EXCEPT
                            !.animation = @,
                            !.x = dimensions.x, !.y = dimensions.y,
                            !.width = dimensions.width,
                            !.height = dimensions.height,
                            !.href = cvs.content]},
               isDirtyCanvas |-> dirty, elements |-> elements]
    ELSE [image |-> {[id |-> elements + 1, inGroup |-> TRUE,
                      x |-> dimensions.x, y |-> dimensions.y,
                      width |-> dimensions.width, height |-> dimensions.height,
                      href |-> cvs.content, animation |-> {}]},
          isDirtyCanvas |-> FALSE, elements |-> elements + 1]

\* if (image) { animate, or stop and set } else { create }: the image,
\* isDirtyCanvas and the count of image elements after it. cvs is the
\* canvas toDataURL reads. animate({ animator: 1 }, animOptions) leaves on
\* the image the running animation: the attributes it starts from, the
\* dimensions it goes to and whether the user's step callback is wrapped.
\* renderer.image(...).attr(dimensions).add(series.group) makes an element.
PlaceImage(img, dirty, cvs, dimensions, env) ==
    IF img # {}
    THEN IF env.globalAnimation /\ env.hasRendered
         THEN [image |-> {[the(img) EXCEPT
                            !.animation =
                                {[startX |-> the(img).x, startY |-> the(img).y,
                                  startWidth |-> the(img).width,
                                  startHeight |-> the(img).height,
                                  to |-> dimensions,
                                  userStep |-> env.userStep]}]},
               isDirtyCanvas |-> dirty, elements |-> elements]
         ELSE [image |-> {[the(img) EXCEPT
                            !.animation = {},
                            !.x = dimensions.x, !.y = dimensions.y,
                            !.width = dimensions.width,
                            !.height = dimensions.height,
                            !.href = cvs.content]},
               isDirtyCanvas |-> dirty, elements |-> elements]
    ELSE [image |-> {[id |-> elements + 1, inGroup |-> TRUE,
                      x |-> dimensions.x, y |-> dimensions.y,
                      width |-> dimensions.width, height |-> dimensions.height,
                      href |-> cvs.content, animation |-> {}]},
          isDirtyCanvas |-> FALSE, elements |-> elements + 1]

\* The fields of the series after a call that changed none of them.
Untouched ==
    [canvas |-> canvas, context |-> context, image |-> image,
     isDirtyCanvas |-> isDirtyCanvas, elements |-> elements, base |-> 0,
     rasterized |-> FALSE, threw |-> FALSE]

\* GeoHeatmapSeries.drawPoints in the environment env: the fields of the
\* series after the call, the number of calls of the base drawPoints,
\* whether the re-rasterization block was entered and whether the call
\* raised.
Draw(env) ==
    IF ~InterpolationPath(options, env)
    THEN [Untouched EXCEPT !.base = 1]
    ELSE LET mapView == the(env.mapView) IN
    IF mapView.corners = {} THEN Untouched
    ELSE
    LET dimensions == Dimensions(the(mapView.corners))
        got == IF context
               THEN [canvas |-> canvas, context |-> context, returns |-> context]
               ELSE getContext(canvas, context, env.canvas2d)
        held == [Untouched EXCEPT !.canvas = got.canvas, !.context = got.context]
    IN
    IF ~CanRender(got.canvas, got.returns, env) THEN held
    ELSE
    LET raster == IF NeedsRaster(isDirtyCanvas, mapView)
                  THEN Rasterize(got.canvas, points, options, colorAxis,
                                 mapView, dimensions)
                  ELSE [canvas |-> got.canvas, threw |-> FALSE]
        placed == PlaceImage(image, isDirtyCanvas, the(raster.canvas),
                             dimensions, env)
    IN
    IF raster.threw
    THEN [held EXCEPT !.canvas = raster.canvas, !.rasterized = TRUE,
                      !.threw = TRUE]
    ELSE [held EXCEPT !.canvas = raster.canvas,
                      !.rasterized = NeedsRaster(isDirtyCanvas, mapView),
                      !.image = placed.image,
                      !.isDirtyCanvas = placed.isDirtyCanvas,
                      !.elements = placed.elements]

drawPoints ==
    \E env \in EnvInputs :
        LET after == Draw(env)
        IN  /\ canvas' = after.canvas
            /\ context' = after.context
            /\ image' = after.image
            /\ isDirtyCanvas' = after.isDirtyCanvas
            /\ elements' = after.elements
            /\ last' = [op |-> "drawPoints", arg |-> {}, env |-> {env},
                        base |-> after.base, rasterized |-> after.rasterized,
                        threw |-> after.threw]
            /\ UNCHANGED <<options, points, rasterVars, editVars>>

\* animOptions.step: the callbacks one frame runs, in their order.
StepCalls(userStep) ==
    IF userStep THEN <<"userStep", "step">> ELSE <<"step">>

\* start + (end - start) * fx.pos
Tween(start, end, pos) == start + (end - start) * pos

\* One frame of the animation running on the image, at its first or its
\* last progress (fx.pos 0 or 1): animOptions.step calls the user's step,
\* if any, and then the step of the series, which sets x, y, width and
\* height. The animation ends with the frame at fx.pos = 1.
animationStep ==
    /\ image # {}
    /\ the(image).animation # {}
    /\ \E pos \in {0, 1} :
          LET running == the(the(image).animation)
          IN  /\ image' = {[the(image) EXCEPT
                    !.x = Tween(running.startX, running.to.x, pos),
                    !.y = Tween(running.startY, running.to.y, pos),
                    !.width = Tween(running.startWidth, running.to.width, pos),
                    !.height = Tween(running.startHeight, running.to.height, pos),
                    !.animation = IF pos = 1 THEN {} ELSE @]}
              /\ last' = [op |-> "step",
                          arg |-> {[pos |-> pos,
                                    calls |-> StepCalls(running.userStep)]},
                          env |-> {}, base |-> 0, rasterized |-> FALSE,
                          threw |-> FALSE]
    /\ UNCHANGED <<options, points, canvas, context, isDirtyCanvas, elements,
                   rasterVars, editVars>>

\* ------------------------------------------------------------------------
\* EditMode
\* ------------------------------------------------------------------------

\* Most layouts a dashboard holds.
MaxLayouts == 2

\* EditGlobals.classNames.editModeEnabled
editModeEnabled == "highcharts-dashboard-edit-enabled"

\* dashboard.options.gui: none, or its layoutOptions.resize and
\* layoutOptions.resizerJSON being set.
GuiInputs ==
    { {} } \cup { {[resize |-> r, resizerJSON |-> j]} : r \in BOOLEAN, j \in BOOLEAN }

\* EditMode.initContextMenu: the menu after it. An object the controller
\* constructs is numbered by the count of its constructions.
initContextMenu ==
    IF contextButtonElement
    THEN {[id |-> created + 1, isVisible |-> FALSE]}
    ELSE contextMenu

\* Mutant of onContextBtnClick: the menu is initialised on every click.
onContextBtnClick_AlwaysInits ==
    LET menu == initContextMenu
    IN  /\ contextMenu' = IF menu # {}
                          THEN {[the(menu) EXCEPT !.isVisible = ~the(menu).isVisible]}
                          ELSE menu
        /\ created' = IF contextButtonElement THEN created + 1 ELSE created
        /\ lastCall' = "onContextBtnClick"
        /\ UNCHANGED <<active, classList, contextButtonElement, cellToolbar,
                       rowToolbar, optionsToolbar, resizers, guiOptions, btnColor,
                       seriesVars, rasterVars>>

\* EditMode.onContextBtnClick
onContextBtnClick ==
    LET menu == IF contextMenu = {} THEN initContextMenu ELSE contextMenu
    IN  /\ contextMenu' = IF menu # {}
                          THEN {[the(menu) EXCEPT !.isVisible = ~the(menu).isVisible]}
                          ELSE menu
        /\ created' = IF contextMenu = {} /\ menu # {} THEN created + 1 ELSE created
        /\ lastCall' = "onContextBtnClick"
        /\ UNCHANGED <<active, classList, contextButtonElement, cellToolbar,
                       rowToolbar, optionsToolbar, resizers, guiOptions, btnColor,
                       seriesVars, rasterVars>>

\* EditMode.initLayoutResizer: the resizer of a layout that had none; n is
\* the number the new object gets.
initLayoutResizer(n) ==
    IF guiOptions # {}
    THEN IF the(guiOptions).resize THEN {[id |-> n, fromJSON |-> FALSE]}
         ELSE IF the(guiOptions).resizerJSON THEN {[id |-> n, fromJSON |-> TRUE]}
         ELSE {}
    ELSE {}

\* Layouts up to i that have no resizer when activateEditMode starts.
Lacking(i) == {j \in 1..i : resizers[j] = {}}

\* Mutant of InitToolbar: the toolbar is constructed on every activation.
InitToolbar_Always(toolbar, n) == {[id |-> n, hidden |-> FALSE]}

\* A toolbar field after "if (!toolbar) toolbar = new Toolbar(editMode)"
InitToolbar(toolbar, n) ==
    IF toolbar = {} THEN {[id |-> n, hidden |-> FALSE]} ELSE toolbar

\* toolbar.hide() when the toolbar exists
HideToolbar(toolbar) ==
    IF toolbar # {} THEN {[the(toolbar) EXCEPT !.hidden = TRUE]} ELSE toolbar

\* EditMode.activateEditMode(btnElement); btn tells whether a button is passed
activateEditMode(btn) ==
    LET made == IF initLayoutResizer(0) = {} THEN 0
                ELSE Cardinality(Lacking(Len(resizers)))
        cellNew == IF cellToolbar = {} THEN 1 ELSE 0
        rowNew == IF rowToolbar = {} THEN 1 ELSE 0
        optionsNew == IF optionsToolbar = {} THEN 1 ELSE 0
    IN  /\ active' = TRUE
        /\ resizers' = [i \in DOMAIN resizers |->
                          IF resizers[i] = {}
                          THEN initLayoutResizer(created + Cardinality(Lacking(i)))
                          ELSE resizers[i]]
        /\ cellToolbar' = InitToolbar(cellToolbar, created + made + 1)
        /\ rowToolbar' = InitToolbar(rowToolbar, created + made + cellNew + 1)
        /\ optionsToolbar' =
               InitToolbar(optionsToolbar, created + made + cellNew + rowNew + 1)
        /\ created' = created + made + cellNew + rowNew + optionsNew
        /\ btnColor' = IF btn THEN "rgb(49 216 71)" ELSE btnColor
        /\ classList' = classList \cup {editModeEnabled}
        /\ UNCHANGED <<contextButtonElement, contextMenu, guiOptions,
                       seriesVars, rasterVars>>

\* Mutant of deactivateEditMode: the class stays on the container.
deactivateEditMode_KeepsClass(btn) ==
    /\ active' = FALSE
    /\ btnColor' = IF btn THEN "#555" ELSE btnColor
    /\ classList' = classList
    /\ cellToolbar' = HideToolbar(cellToolbar)
    /\ rowToolbar' = HideToolbar(rowToolbar)
    /\ UNCHANGED <<contextButtonElement, contextMenu, optionsToolbar, resizers,
                   guiOptions, created, seriesVars, rasterVars>>

\* EditMode.deactivateEditMode(btnElement)
deactivateEditMode(btn) ==
    /\ active' = FALSE
    /\ btnColor' = IF btn THEN "#555" ELSE btnColor
    /\ classList' = classList \ {editModeEnabled}
    /\ cellToolbar' = HideToolbar(cellToolbar)
    /\ rowToolbar' = HideToolbar(rowToolbar)
    /\ UNCHANGED <<contextButtonElement, contextMenu, optionsToolbar, resizers,
                   guiOptions, created, seriesVars, rasterVars>>

\* Mutant of onEditModeToggle: the toggle activates whatever the state.
onEditModeToggle_AlwaysActivates(btn) == activateEditMode(btn)

\* EditMode.onEditModeToggle(btnElement)
onEditModeToggle(btn) ==
    IF active THEN deactivateEditMode(btn) ELSE activateEditMode(btn)

\* EditMode.isActive
isActive == active

Activate ==
    /\ \E btn \in BOOLEAN : activateEditMode(btn)
    /\ lastCall' = "activateEditMode"

Deactivate ==
    /\ \E btn \in BOOLEAN : deactivateEditMode(btn)
    /\ lastCall' = "deactivateEditMode"

Toggle ==
    /\ \E btn \in BOOLEAN : onEditModeToggle(btn)
    /\ lastCall' = "onEditModeToggle"

\* ------------------------------------------------------------------------
\* Initial states and specifications
\* ------------------------------------------------------------------------

\* A series after construction: no canvas, context or image, a dirty canvas.
SeriesFields ==
    /\ canvas = {}
    /\ context = FALSE
    /\ image = {}
    /\ isDirtyCanvas = TRUE
    /\ elements = 0
    /\ last = [op |-> "new", arg |-> {}, env |-> {}, base |-> 0,
               rasterized |-> FALSE, threw |-> FALSE]

\* The locals of the raster loop before its first pass.
LoopFields ==
    /\ pixelData = <<>>
    /\ written = <<>>
    /\ raised = FALSE

\* An EditMode after its constructor.
EditFields ==
    /\ active = FALSE
    /\ classList = {}
    /\ contextMenu = {}
    /\ cellToolbar = {}
    /\ rowToolbar = {}
    /\ optionsToolbar = {}
    /\ btnColor = ""
    /\ created = 0
    /\ lastCall = "new"

SeriesIdle ==
    /\ SeriesFields
    /\ options = [interpolation |-> FALSE, colsize |-> {1}, rowsize |-> {1},
                  interpolationBlur |-> {}]
    /\ points = <<>>

LoopIdle ==
    /\ LoopFields
    /\ colorAxis = OpaqueAxis
    /\ sizes = [colsize |-> 1, rowsize |-> 1]

EditIdle ==
    /\ EditFields
    /\ contextButtonElement = FALSE
    /\ resizers = <<>>
    /\ guiOptions = {}

\* The series: the options and points it was built with, on a chart whose
\* colour axis has opaque colours.
InitSeries ==
    /\ SeriesFields
    /\ options \in [interpolation : BOOLEAN, colsize : SeriesSizeInputs,
                    rowsize : {{1}}, interpolationBlur : {{}}]
    /\ points \in SeriesPointsInputs
    /\ LoopIdle
    /\ EditIdle

NextSeries == update \/ drawPoints \/ animationStep

SpecSeries == InitSeries /\ [][NextSeries]_vars

\* The raster loop on drawn sizes and colour axis.
InitRaster ==
    /\ LoopFields
    /\ colorAxis \in ColorAxisInputs
    /\ sizes \in [colsize : SizeInputs, rowsize : SizeInputs]
    /\ SeriesIdle
    /\ EditIdle

NextRaster == ProcessPoint

SpecRaster == InitRaster /\ [][NextRaster]_vars

\* The edit mode of a dashboard with up to MaxLayouts layouts, each with or
\* without a resizer of its own.
InitEdit ==
    /\ EditFields
    /\ contextButtonElement \in BOOLEAN
    /\ guiOptions \in GuiInputs
    /\ \E n \in 0..MaxLayouts :
          resizers \in [1..n -> { {}, {[id |-> 0, fromJSON |-> FALSE]} }]
    /\ SeriesIdle
    /\ LoopIdle

NextEdit == onContextBtnClick \/ Activate \/ Deactivate \/ Toggle

SpecEdit == InitEdit /\ [][NextEdit]_vars

\* ------------------------------------------------------------------------
\* Properties of drawPoints and update (SpecSeries)
\* ------------------------------------------------------------------------

\* The step is a drawPoints call; Env is then what the call read.
DrawCalled == last'.op = "drawPoints"
Env == the(last'.env)

\* The call got past "if (topLeft && bottomRight)" and
\* "if (canvas && ctx && colorAxis)".
ReachedRender ==
    /\ DrawCalled
    /\ options.interpolation /\ Env.mapView # {} /\ Env.bounds
    /\ the(Env.mapView).corners # {}
    /\ canvas' # {} /\ context' /\ Env.hasColorAxis

\* C1: a drawPoints call with interpolation enabled, a mapView and defined
\* bounds that can get no 2D context (series.context unset, the browser
\* gives none) creates and modifies no image, keeps isDirtyCanvas, does not
\* call the base drawPoints and raises nothing.
C1_NoContextSkipsRendering ==
    [][(/\ DrawCalled
        /\ options.interpolation /\ Env.mapView # {} /\ Env.bounds
        /\ ~context /\ ~Env.canvas2d)
       => (/\ image' = image
           /\ isDirtyCanvas' = isDirtyCanvas
           /\ last'.base = 0
           /\ ~last'.rasterized
           /\ ~last'.threw)]_vars

C1_Witness ==
    /\ last.op = "drawPoints"
    /\ options.interpolation
    /\ the(last.env).mapView # {} /\ the(last.env).bounds
    /\ ~the(last.env).canvas2d /\ ~context
    /\ canvas # {} /\ image = {} /\ isDirtyCanvas

\* C2 as stated: a drawPoints call with interpolation enabled and
\* series.bounds undefined draws nothing, neither the raster image nor point
\* graphics (the base drawPoints is not called), and raises nothing.
C2_NothingDrawnWithoutBounds ==
    [][(DrawCalled /\ options.interpolation /\ ~Env.bounds)
       => (/\ image' = image
           /\ canvas' = canvas
           /\ last'.base = 0
           /\ ~last'.threw)]_vars

\* C2 amended: a drawPoints call with interpolation enabled and
\* series.bounds undefined skips the raster image (canvas, context, image
\* and isDirtyCanvas stay as they are), raises nothing, and hands the
\* drawing to the base drawPoints, which it calls once.
C2_BaseDrawsWithoutBounds ==
    [][(DrawCalled /\ options.interpolation /\ ~Env.bounds)
       => (/\ UNCHANGED <<canvas, context, image, isDirtyCanvas>>
           /\ last'.base = 1
           /\ ~last'.rasterized
           /\ ~last'.threw)]_vars

C2_Witness ==
    /\ last.op = "drawPoints"
    /\ options.interpolation
    /\ the(last.env).mapView # {} /\ ~the(last.env).bounds
    /\ last.base = 1

\* C8: in a drawPoints call that reaches the rendering (interpolation path,
\* canvas, context and colour axis available) the re-rasterization block
\* runs if and only if isDirtyCanvas was true or the projection is
\* 'Orthographic'; when neither holds the canvas keeps its dimensions and
\* its pixels.
C8_RasterIffDirtyOrOrthographic ==
    [][ReachedRender
       => LET needed == isDirtyCanvas \/ the(Env.mapView).name = "Orthographic"
          IN  /\ last'.rasterized <=> needed
              /\ needed /\ ~last'.threw
                    => /\ the(canvas').width = Dimensions(the(the(Env.mapView).corners)).width
                       /\ the(canvas').content # {}
              /\ ~needed => canvas' = canvas]_vars

\* A call that found a clean canvas on another projection and left it alone.
C8_Witness ==
    /\ last.op = "drawPoints"
    /\ options.interpolation /\ context /\ image # {}
    /\ the(last.env).mapView # {} /\ the(last.env).bounds
    /\ the(the(last.env).mapView).corners # {}
    /\ the(the(last.env).mapView).name = "EqualEarth"
    /\ the(last.env).hasColorAxis
    /\ ~isDirtyCanvas /\ ~last.rasterized
    /\ the(canvas).content # {}

\* C9: update merges its argument into series.options, then sets
\* isDirtyCanvas when the merged options have interpolation enabled and
\* leaves it otherwise, and calls the base update once; a drawPoints call
\* that follows an update of an interpolated series and reaches the
\* rendering runs the re-rasterization block.
C9_UpdateDirtiesCanvas ==
    [][/\ last'.op = "update"
          => LET newOptions == the(last'.arg)
             IN  /\ options'.interpolation =
                        pick(newOptions.interpolation, options.interpolation)
                 /\ options'.colsize =
                        (IF newOptions.colsize # {} THEN newOptions.colsize
                         ELSE options.colsize)
                 /\ options'.rowsize = options.rowsize
                 /\ options'.interpolation => isDirtyCanvas'
                 /\ ~options'.interpolation => isDirtyCanvas' = isDirtyCanvas
                 /\ last'.base = 1
       /\ (last.op = "update" /\ ReachedRender) => last'.rasterized]_vars

\* A re-rasterization of a series that already has its image, right after
\* an update that changed colsize.
C9_Witness ==
    /\ last.op = "update"
    /\ the(last.arg).colsize = {16}
    /\ options.interpolation /\ isDirtyCanvas
    /\ image # {} /\ context

\* C10: a drawPoints call with the interpolation option falsy or without a
\* mapView calls the base drawPoints once and leaves series.canvas,
\* series.context, series.image and isDirtyCanvas unchanged.
C10_BasePathLeavesRasterAlone ==
    [][(DrawCalled /\ (~options.interpolation \/ Env.mapView = {}))
       => (/\ last'.base = 1
           /\ UNCHANGED <<canvas, context, image, isDirtyCanvas>>)]_vars

\* The base path taken by a series that has a canvas and an image.
C10_Witness ==
    /\ last.op = "drawPoints"
    /\ ~options.interpolation
    /\ last.base = 1
    /\ canvas # {} /\ image # {}

\* ------------------------------------------------------------------------
\* Properties of the raster loop (SpecRaster)
\* ------------------------------------------------------------------------

InRange(p) ==
    /\ \A lon \in p.lon : lon >= -180 /\ lon <= 180
    /\ \A lat \in p.lat : lat >= -90 /\ lat <= 90

canvasArea == CanvasWidth(sizes.colsize) * CanvasHeight(sizes.rowsize)

\* The processed points whose four bytes were written into the buffer.
Stored ==
    {i \in 1..Len(written) :
        /\ written[i].cell # {}
        /\ SetInRange(the(written[i].cell), sizes.colsize, sizes.rowsize)}

\* C3 as stated: for every point with lon in [-180, 180] and lat in
\* [-90, 90] the cell index is at least 0 and less than canvasWidth *
\* canvasHeight, so pixelData.set never raises.
C3_CellInsideBuffer ==
    /\ \A i \in 1..Len(written) : \A cell \in written[i].cell :
          InRange(written[i].p) => (0 <= cell /\ cell < canvasArea)
    /\ ~raised

\* C4 as stated: of any two points written to the buffer, those with equal
\* lat lie in the same row (index div canvasWidth) and those with equal lon
\* in the same column (index mod canvasWidth).
C4_RowByLatColumnByLon ==
    \A i \in Stored : \A j \in Stored :
        LET canvasWidth == CanvasWidth(sizes.colsize)
            ci == the(written[i].cell)
            cj == the(written[j].cell)
        IN  /\ written[i].p.lat = written[j].p.lat
                => ci \div canvasWidth = cj \div canvasWidth
            /\ written[i].p.lon = written[j].p.lon
                => ci % canvasWidth = cj % canvasWidth

\* The alpha and the colour components the colour axis gives for the value
\* of p.
AxisAlpha(p) ==
    LET c == colorAxis[pick(p.value, 0)]
    IN  IF Len(c) >= 4 THEN (c[4] * 255) \div 5 ELSE 255

AxisRGB(p) == SubSeq(colorAxis[pick(p.value, 0)], 1, 3)

\* C5 as stated: the colour of a point has four components; its alpha is 0
\* exactly when the value is not defined; for a defined value (0 included)
\* the alpha is the colour-axis alpha times 255, 255 without an alpha
\* component, and the RGB components are those of the colour axis.
C5_AlphaZeroIffUndefined ==
    \A i \in 1..Len(written) :
        LET p == written[i].p
            rgba == written[i].rgba
        IN  /\ Len(rgba) = 4
            /\ rgba[4] = 0 <=> ~defined(p.value)
            /\ defined(p.value)
                => rgba[4] = AxisAlpha(p) /\ SubSeq(rgba, 1, 3) = AxisRGB(p)

\* C5 amended: the colour of a point has four components; its alpha is 0
\* when the value is not defined; for a defined value (0 included) the
\* alpha is the colour-axis alpha times 255, 255 without an alpha component
\* (so it is 0 as well when the colour axis gives a fully transparent
\* colour), and the RGB components are those of the colour axis.
C5_AlphaFromAxisWhenDefined ==
    \A i \in 1..Len(written) :
        LET p == written[i].p
            rgba == written[i].rgba
        IN  /\ Len(rgba) = 4
            /\ ~defined(p.value) => rgba[4] = 0
            /\ defined(p.value)
                => rgba[4] = AxisAlpha(p) /\ SubSeq(rgba, 1, 3) = AxisRGB(p)

\* A point of value 0 drawn opaque next to a point without value, on an
\* axis whose colours carry no alpha.
C5_Witness ==
    \E i, j \in 1..Len(written) :
        /\ written[i].p.value = {0} /\ written[i].rgba[4] = 255
        /\ written[j].p.value = {} /\ written[j].rgba[4] = 0

\* ------------------------------------------------------------------------
\* Properties of EditMode (SpecEdit)
\* ------------------------------------------------------------------------

\* C6: the active flag is false after construction; activateEditMode
\* leaves it true, deactivateEditMode false, onEditModeToggle inverted; and
\* isActive() is its value.
C6_ActiveFlag ==
    /\ [](lastCall = "new" => ~isActive)
    /\ [][/\ lastCall' = "activateEditMode" => isActive'
          /\ lastCall' = "deactivateEditMode" => ~isActive'
          /\ lastCall' = "onEditModeToggle" => isActive' = ~isActive
          /\ lastCall' = "onContextBtnClick" => isActive' = isActive
          /\ isActive' = active']_vars

\* Toggled off again after an activation.
C6_Witness ==
    /\ lastCall = "onEditModeToggle"
    /\ ~isActive
    /\ cellToolbar # {}

\* C7: after every call the container carries the class
\* 'highcharts-dashboard-edit-enabled' if and only if isActive() is true.
C7_ClassIffActive ==
    ("highcharts-dashboard-edit-enabled" \in classList) <=> isActive

\* Deactivated after an activation, the class gone again.
C7_Witness ==
    /\ lastCall = "deactivateEditMode"
    /\ ~isActive
    /\ optionsToolbar # {}
    /\ "highcharts-dashboard-edit-enabled" \notin classList

\* C11: over any sequence of calls the context menu is created at most
\* once, by the first onContextBtnClick and only when the context button
\* element was rendered; a click on an existing menu inverts its visibility
\* and keeps the menu; without a context button element a click creates no
\* menu and changes nothing.
C11_ContextMenuCreatedOnce ==
    [][/\ contextMenu # {}
          => /\ contextMenu' # {}
             /\ the(contextMenu').id = the(contextMenu).id
       /\ lastCall' # "onContextBtnClick" => contextMenu' = contextMenu
       /\ lastCall' = "onContextBtnClick"
          => IF contextMenu # {}
             THEN /\ the(contextMenu').isVisible = ~the(contextMenu).isVisible
                  /\ created' = created
             ELSE IF contextButtonElement
             THEN contextMenu' # {} /\ created' = created + 1
             ELSE UNCHANGED <<active, classList, contextButtonElement,
                              contextMenu, cellToolbar, rowToolbar,
                              optionsToolbar, resizers, guiOptions, btnColor,
                              created>>]_vars

\* The menu after a second click: the same menu, hidden again.
C11_Witness ==
    /\ lastCall = "onContextBtnClick"
    /\ contextButtonElement
    /\ contextMenu # {}
    /\ ~the(contextMenu).isVisible

\* The step runs activateEditMode, called directly or by the toggle.
Activating ==
    \/ lastCall' = "activateEditMode"
    \/ lastCall' = "onEditModeToggle" /\ ~active

\* The toolbar fields.
Toolbars == <<cellToolbar, rowToolbar, optionsToolbar>>

\* C12: over any sequence of activateEditMode, deactivateEditMode and
\* onEditModeToggle calls each toolbar is constructed at most once, by the
\* first activation, and is never replaced or cleared afterwards; a layout
\* that has a resizer keeps it; a layout without one gets a resizer only on
\* an activation with layoutOptions.resize or layoutOptions.resizerJSON set.
C12_ToolbarsAndResizersKept ==
    [][/\ \A k \in 1..3 :
            /\ Toolbars[k] # {}
                => /\ Toolbars'[k] # {}
                   /\ the(Toolbars'[k]).id = the(Toolbars[k]).id
            /\ (Toolbars[k] = {} /\ Toolbars'[k] # {})
                => /\ Activating
                   /\ \A j \in 1..3 : Toolbars[j] = {} /\ Toolbars'[j] # {}
       /\ Activating => \A k \in 1..3 : Toolbars'[k] # {}
       /\ \A i \in DOMAIN resizers :
            /\ resizers[i] # {} => resizers'[i] = resizers[i]
            /\ (resizers[i] = {} /\ resizers'[i] # {})
                => /\ Activating
                   /\ guiOptions # {}
                   /\ the(guiOptions).resize \/ the(guiOptions).resizerJSON]_vars

\* Activated a second time: the toolbar hidden by the deactivation is still
\* the one in place, next to a resizer the first activation made.
C12_Witness ==
    /\ lastCall = "activateEditMode"
    /\ active
    /\ cellToolbar # {} /\ the(cellToolbar).hidden
    /\ \E i \in DOMAIN resizers : resizers[i] # {} /\ the(resizers[i]).id > 0


\* A drawPoints call that came to the test of series.image: the rendering
\* block was entered and nothing in it raised before the test.
ReachedImageTest == ReachedRender /\ ~last'.threw

\* The dimensions the call computed from the projected corners.
Bounds == Dimensions(the(the(Env.mapView).corners))

\* x, y, width and height of an image element
Attrs(img) == [x |-> img.x, y |-> img.y, width |-> img.width,
               height |-> img.height]

\* C13: on the interpolation path, a drawPoints call that finds no
\* series.image creates one image element from the canvas data at the
\* projected bounds, in the series group, and sets isDirtyCanvas to false;
\* an image is created by nothing else, series.image stays that element
\* ever after, and at most one element is ever created.
C13_OneImageElement ==
    /\ [](elements <= 1)
    /\ [][/\ (ReachedImageTest /\ image = {})
             => /\ image' = {[id |-> elements + 1, inGroup |-> TRUE,
                              x |-> Bounds.x,
                              y |-> Bounds.y,
                              width |-> Bounds.width,
                              height |-> Bounds.height,
                              href |-> the(canvas').content,
                              animation |-> {}]}
                /\ elements' = elements + 1
                /\ isDirtyCanvas' = FALSE
          /\ (image = {} /\ image' # {}) => ReachedImageTest
          /\ image # {} => /\ image' # {}
                           /\ the(image').id = the(image).id
                           /\ the(image').inGroup
                           /\ elements' = elements]_vars

\* C13's case: the drawPoints call that created the image (an EqualEarth
\* view is rasterized only when the canvas is dirty, and only the creation
\* of the image clears isDirtyCanvas).
C13_Witness ==
    /\ last.op = "drawPoints"
    /\ last.rasterized
    /\ ~last.threw
    /\ the(the(last.env).mapView).name = "EqualEarth"
    /\ ~isDirtyCanvas
    /\ image # {}
    /\ the(image).id = 1
    /\ the(image).href = the(canvas).content
    /\ elements = 1

\* C14: a drawPoints call that finds an image starts, when global
\* animation is on and the chart has rendered, an animation from the
\* attributes the image has at the call to the new bounds, whose frame at
\* fx.pos = 0 sets the former and at fx.pos = 1 the latter, the user's step
\* called before the step of the series on every frame; otherwise it stops
\* any running animation and sets x, y, width and height to the new
\* bounds at once.
C14_AnimateOrSet ==
    [][/\ (ReachedImageTest /\ image # {})
          => IF Env.globalAnimation /\ Env.hasRendered
             THEN /\ Attrs(the(image')) = Attrs(the(image))
                  /\ the(image').animation =
                        {[startX |-> the(image).x, startY |-> the(image).y,
                          startWidth |-> the(image).width,
                          startHeight |-> the(image).height,
                          to |-> Bounds,
                          userStep |-> Env.userStep]}
             ELSE /\ the(image').animation = {}
                  /\ Attrs(the(image')) = Bounds
       /\ (last'.op = "step")
          => LET running == the(the(image).animation)
                 frame == the(last'.arg)
             IN  /\ (frame.pos = 0)
                    => (Attrs(the(image')) =
                         [x |-> running.startX, y |-> running.startY,
                          width |-> running.startWidth,
                          height |-> running.startHeight])
                 /\ (frame.pos = 1) => (Attrs(the(image')) = running.to)
                 /\ frame.calls = IF running.userStep
                                  THEN <<"userStep", "step">>
                                  ELSE <<"step">>]_vars

\* C14's case: the last frame of an animation with a step callback of the
\* user has brought the image to bounds other than those it started from.
C14_Witness ==
    /\ last.op = "step"
    /\ the(last.arg).pos = 1
    /\ the(last.arg).calls = <<"userStep", "step">>
    /\ image # {}
    /\ the(image).animation = {}
    /\ the(image).width < 400

====
